---------------------------- MODULE Spec2Model ----------------------------
(***************************************************************************)
(* Model of flake8_ascii_validator.AsciiChecker: the token classifier that *)
(* reports the first non-ASCII character of each token.                    *)
(*                                                                         *)
(* A Python str is a sequence of code points (naturals); a token is a      *)
(* record [type, string, start] with start = <<line, column>>; a violation *)
(* is the 4-tuple <<line, column, message, origin>> that run() yields.     *)
(* A Python value that may be None is a record [is_none, items].           *)
(***************************************************************************)
EXTENDS Integers, Sequences, FiniteSets, TLC

(***************************************************************************)
(* Bounds of the model.                                                    *)
(***************************************************************************)
MaxLen == 3        \* longest enumerated token text
MaxTokens == 2     \* longest enumerated token sequence
MaxRuns == 3       \* calls of run() on one checker
MaxLine == 5       \* start line of the enumerated far position
MaxCol == 4        \* start column of the enumerated far position

(***************************************************************************)
(* Python values.                                                          *)
(***************************************************************************)
NoneValue == [is_none |-> TRUE, items |-> <<>>]

List(s) == [is_none |-> FALSE, items |-> s]

\* bool(v) of a list-or-None value
Truthy(v) == ~v.is_none /\ Len(v.items) > 0

\* file_tokens or []
OrEmptyList_identity(v) == v

OrEmptyList(v) == IF Truthy(v) THEN v ELSE List(<<>>)

(***************************************************************************)
(* Class constants: the three "error code" strings.                        *)
(***************************************************************************)
\* "ASC001 Non-ASCII character found in source code"
ASC001 == <<65, 83, 67, 48, 48, 49, 32, 78, 111, 110, 45, 65, 83, 67, 73, 73,
            32, 99, 104, 97, 114, 97, 99, 116, 101, 114, 32, 102, 111, 117,
            110, 100, 32, 105, 110, 32, 115, 111, 117, 114, 99, 101, 32, 99,
            111, 100, 101>>

\* "ASC002 Non-ASCII character found in string literal"
ASC002 == <<65, 83, 67, 48, 48, 50, 32, 78, 111, 110, 45, 65, 83, 67, 73, 73,
            32, 99, 104, 97, 114, 97, 99, 116, 101, 114, 32, 102, 111, 117,
            110, 100, 32, 105, 110, 32, 115, 116, 114, 105, 110, 103, 32, 108,
            105, 116, 101, 114, 97, 108>>

\* "ASC003 Non-ASCII character found in comment"
ASC003 == <<65, 83, 67, 48, 48, 51, 32, 78, 111, 110, 45, 65, 83, 67, 73, 73,
            32, 99, 104, 97, 114, 97, 99, 116, 101, 114, 32, 102, 111, 117,
            110, 100, 32, 105, 110, 32, 99, 111, 109, 109, 101, 110, 116>>

\* " Non-ASCII character '"
MsgLead == <<32, 78, 111, 110, 45, 65, 83, 67, 73, 73, 32, 99, 104, 97, 114,
             97, 99, 116, 101, 114, 32, 39>>

\* "' (U+"
MsgMid == <<39, 32, 40, 85, 43>>

\* ") found in comment"
MsgTailComment == <<41, 32, 102, 111, 117, 110, 100, 32, 105, 110, 32, 99,
                    111, 109, 109, 101, 110, 116>>

\* ") found in string literal"
MsgTailString == <<41, 32, 102, 111, 117, 110, 100, 32, 105, 110, 32, 115,
                   116, 114, 105, 110, 103, 32, 108, 105, 116, 101, 114, 97,
                   108>>

\* ") found in source code"
MsgTailGeneral == <<41, 32, 102, 111, 117, 110, 100, 32, 105, 110, 32, 115,
                    111, 117, 114, 99, 101, 32, 99, 111, 100, 101>>

\* type(self)
Origin == "AsciiChecker"

(***************************************************************************)
(* ord(char) > 127                                                         *)
(***************************************************************************)
AsciiMax == 127

IsNonAscii(c) == c > AsciiMax

(***************************************************************************)
(* f"{ord(char):04X}": uppercase hexadecimal, zero-padded to a minimum     *)
(* width of four.                                                          *)
(***************************************************************************)
HexWidth == 4

\* the character of one hexadecimal digit: 0-9, A-F
HexDigit(d) == IF d < 10 THEN 48 + d ELSE 55 + d

RECURSIVE HexDigits(_)
HexDigits(n) ==
    IF n < 16 THEN <<HexDigit(n)>>
    ELSE HexDigits(n \div 16) \o <<HexDigit(n % 16)>>

RECURSIVE ZeroPad(_, _)
ZeroPad(s, w) == IF Len(s) >= w THEN s ELSE ZeroPad(<<48>> \o s, w)

Format04X_lowercase(n) ==
    LET d == ZeroPad(HexDigits(n), HexWidth)
    IN  [i \in 1..Len(d) |-> IF d[i] >= 65 THEN d[i] + 32 ELSE d[i]]

Format04X(n) == ZeroPad(HexDigits(n), HexWidth)

(***************************************************************************)
(* str.lower() and str.startswith(tuple).  lower() is modelled on ASCII    *)
(* and Latin-1, the ranges the enumerated texts are drawn from; every      *)
(* other code point used here has no lowercase mapping.                    *)
(***************************************************************************)
LowerChar(c) ==
    IF c \in 65..90 THEN c + 32
    ELSE IF c \in 192..222 /\ c # 215 THEN c + 32
    ELSE c

lower(s) == [i \in 1..Len(s) |-> LowerChar(s[i])]

startswith(s, p) == Len(s) >= Len(p) /\ SubSeq(s, 1, Len(p)) = p

\* ('r"', "r'", 'u"', "u'", 'b"', "b'")
ExemptPrefixes ==
    { <<114, 34>>, <<114, 39>>, <<117, 34>>, <<117, 39>>,
      <<98, 34>>, <<98, 39>> }

HasExemptPrefix_case_sensitive(string_text) ==
    \E p \in ExemptPrefixes : startswith(string_text, p)

HasExemptPrefix(string_text) ==
    \E p \in ExemptPrefixes : startswith(lower(string_text), p)

(***************************************************************************)
(* The character scan shared by the three handlers:                        *)
(*   for i, char in enumerate(text):                                       *)
(*       if ord(char) > 127: yield (...); break                            *)
(* i is the 0-based index of enumerate(); the result is the sequence of    *)
(* violations the handler yields (empty or one element).                   *)
(***************************************************************************)
col_offset_index_only(token, i) == i

col_offset_one_based(token, i) == token.start[2] + i + 1

col_offset(token, i) == token.start[2] + i

Message(code, char, tail) ==
    code \o MsgLead \o <<char>> \o MsgMid \o Format04X(char) \o tail

\* the scan without its break: every non-ASCII character is reported
RECURSIVE ScanFrom_no_break(_, _, _, _)
ScanFrom_no_break(token, i, code, tail) ==
    IF i >= Len(token.string) THEN <<>>
    ELSE IF IsNonAscii(token.string[i + 1])
         THEN << <<token.start[1], col_offset(token, i),
                   Message(code, token.string[i + 1], tail), Origin>> >>
              \o ScanFrom_no_break(token, i + 1, code, tail)
         ELSE ScanFrom_no_break(token, i + 1, code, tail)

RECURSIVE ScanFrom(_, _, _, _)
ScanFrom(token, i, code, tail) ==
    IF i >= Len(token.string) THEN <<>>
    ELSE IF IsNonAscii(token.string[i + 1])
         THEN << <<token.start[1], col_offset(token, i),
                   Message(code, token.string[i + 1], tail), Origin>> >>
         ELSE ScanFrom(token, i + 1, code, tail)

check_comment(token) == ScanFrom(token, 0, ASC003, MsgTailComment)

check_string_token(token) ==
    IF HasExemptPrefix(token.string) THEN <<>>
    ELSE ScanFrom(token, 0, ASC002, MsgTailString)

\* {tokenize.STRING, tokenize.COMMENT, tokenize.ENCODING}
skip_types == {"STRING", "COMMENT", "ENCODING"}

check_general_token_no_skip(token) ==
    ScanFrom(token, 0, ASC001, MsgTailGeneral)

check_general_token(token) ==
    IF token.type \in skip_types THEN <<>>
    ELSE ScanFrom(token, 0, ASC001, MsgTailGeneral)

(***************************************************************************)
(* Inputs.                                                                 *)
(***************************************************************************)
TokenTypes == {"COMMENT", "STRING", "ENCODING", "NAME"}

\* newline " R r DEL e-acute U+1F600
Alphabet == {10, 34, 82, 114, 127, 233, 128512}

Texts == UNION { [1..k -> Alphabet] : k \in 0..MaxLen }

\* every text under every type, at one position off the left margin
EnumeratedTokens ==
    { [type |-> ty, string |-> s, start |-> <<MaxLine, MaxCol>>] :
        ty \in TokenTypes, s \in Texts }

Tok(ty, s, l, c) == [type |-> ty, string |-> s, start |-> <<l, c>>]

\* tokens as tokenize produces them for the sources of the test suite
SampleTokens ==
    { Tok("ENCODING", <<117, 116, 102, 45, 56>>, 0, 0),             \* utf-8
      Tok("COMMENT", <<35, 32, 99, 111, 109, 109, 233, 110, 116>>,
          5, 4),                                                 \* # commént
      Tok("COMMENT", <<35, 32, 99, 97, 102, 233>>, 1, 0),           \* # café
      Tok("STRING", <<114, 98, 34, 233, 34>>, 2, 4),                \* rb"é"
      Tok("STRING", <<102, 34, 233, 34>>, 3, 0),                    \* f"é"
      Tok("STRING", <<117, 39, 248, 39>>, 3, 8),                    \* u'ø'
      Tok("STRING", <<85, 34, 233, 34>>, 4, 2),                     \* U"é"
      Tok("STRING", <<34, 111, 107, 34>>, 2, 9),                    \* "ok"
      Tok("STRING", <<34, 34, 34, 10, 233, 248, 34, 34, 34>>, 6, 4),
                                                       \* """<newline>éø"""
      Tok("NAME", <<118, 97, 114, 105, 97, 98, 108, 233>>, 2, 4), \* variablé
      Tok("OP", <<61>>, 2, 13),                                     \* =
      Tok("ERRORTOKEN", <<128512>>, 1, 3) }                       \* U+1F600

TokenSeqs == UNION { [1..k -> SampleTokens] : k \in 0..MaxTokens }

Filenames == {"<unknown>", "<test>"}

(***************************************************************************)
(* State.                                                                  *)
(***************************************************************************)
VARIABLES
    tokens_arg,    \* the file_tokens argument of the constructor
    file_tokens,   \* self.file_tokens
    filename,      \* self.filename
    pc,            \* the generator of the current run() call:
                   \*   "idle" (run() not called), "running", "done"
                   \*   (exhausted), "closed" (abandoned by the caller),
                   \*   "raised" (an exception left the generator)
    idx,           \* 1-based position of the for loop of _check_tokens
    out,           \* the violations the current run() has yielded
    emitted_by,    \* history: for each element of out, the loop position
                   \*   at which it was yielded
    runs,          \* number of run() calls so far
    first_run      \* history: the result of the first exhausted run

vars == <<tokens_arg, file_tokens, filename, pc, idx, out, emitted_by,
          runs, first_run>>

\* AsciiChecker.__init__(tree, file_tokens, filename)
Construct(arg, name) ==
    /\ tokens_arg = arg
    /\ file_tokens = OrEmptyList(arg)
    /\ filename = name
    /\ pc = "idle"
    /\ idx = 1
    /\ out = <<>>
    /\ emitted_by = <<>>
    /\ runs = 0
    /\ first_run = NoneValue

\* AsciiChecker(tree, file_tokens=None): filename keeps its default
InitDirect ==
    \E arg \in {NoneValue} \cup { List(<<t>>) : t \in EnumeratedTokens } :
        Construct(arg, "<unknown>")

\* ascii_checker_factory(tree, filename, file_tokens=None)
InitFactory ==
    \E arg \in {NoneValue} \cup { List(s) : s \in TokenSeqs },
       name \in Filenames :
        Construct(arg, name)

Init == InitDirect \/ InitFactory

(***************************************************************************)
(* run(): a fresh generator over self.file_tokens.  Iterating None raises  *)
(* TypeError as soon as the generator is advanced.                         *)
(***************************************************************************)
Run_resuming ==
    /\ pc \in {"idle", "done", "closed"}
    /\ runs < MaxRuns
    /\ runs' = runs + 1
    /\ pc' = IF file_tokens.is_none THEN "raised" ELSE "running"
    /\ out' = <<>>
    /\ emitted_by' = <<>>
    /\ UNCHANGED <<tokens_arg, file_tokens, filename, idx, first_run>>

Run ==
    /\ pc \in {"idle", "done", "closed"}
    /\ runs < MaxRuns
    /\ runs' = runs + 1
    /\ pc' = IF file_tokens.is_none THEN "raised" ELSE "running"
    /\ idx' = 1
    /\ out' = <<>>
    /\ emitted_by' = <<>>
    /\ UNCHANGED <<tokens_arg, file_tokens, filename, first_run>>

\* the token the for loop of _check_tokens is at
CurrentToken_reversed ==
    file_tokens.items[Len(file_tokens.items) - idx + 1]

CurrentToken == file_tokens.items[idx]

Looping == pc = "running" /\ idx <= Len(file_tokens.items)

\* one iteration of the loop: the violations of one handler are yielded
Yield(vs) ==
    /\ out' = out \o vs
    /\ emitted_by' = emitted_by \o [k \in 1..Len(vs) |-> idx]
    /\ idx' = idx + 1
    /\ UNCHANGED <<tokens_arg, file_tokens, filename, pc, runs, first_run>>

CheckComment ==
    /\ Looping
    /\ CurrentToken.type = "COMMENT"
    /\ Yield(check_comment(CurrentToken))

CheckStringToken ==
    /\ Looping
    /\ CurrentToken.type # "COMMENT"
    /\ CurrentToken.type = "STRING"
    /\ Yield(check_string_token(CurrentToken))

CheckGeneralToken ==
    /\ Looping
    /\ CurrentToken.type # "COMMENT"
    /\ CurrentToken.type # "STRING"
    /\ Yield(check_general_token(CurrentToken))

\* the loop is over: the generator is exhausted (StopIteration)
Finish ==
    /\ pc = "running"
    /\ idx > Len(file_tokens.items)
    /\ pc' = "done"
    /\ first_run' = IF first_run.is_none THEN List(out) ELSE first_run
    /\ UNCHANGED <<tokens_arg, file_tokens, filename, idx, out, emitted_by,
                   runs>>

\* the caller stops consuming the generator before it is exhausted
Close ==
    /\ pc = "running"
    /\ pc' = "closed"
    /\ UNCHANGED <<tokens_arg, file_tokens, filename, idx, out, emitted_by,
                   runs, first_run>>

Step == CheckComment \/ CheckStringToken \/ CheckGeneralToken \/ Finish

Next == Run \/ CheckComment \/ CheckStringToken \/ CheckGeneralToken
            \/ Finish \/ Close

Spec == Init /\ [][Next]_vars

\* the caller that consumes the generator to the end (list(checker.run()))
FairSpec == Spec /\ WF_vars(Step)

TypeOK ==
    /\ pc \in {"idle", "running", "done", "closed", "raised"}
    /\ idx \in 1..(Len(file_tokens.items) + 1)
    /\ runs \in 0..MaxRuns
    /\ Len(out) = Len(emitted_by)

(***************************************************************************)
(* Vocabulary of the properties.                                           *)
(***************************************************************************)
Contains(s, sub) ==
    \E i \in 1..(Len(s) - Len(sub) + 1) : SubSeq(s, i, i + Len(sub) - 1) = sub

\* loop positions whose handler has run in the current run()
Processed == 1..(idx - 1)

TokenAt(i) == file_tokens.items[i]

\* the elements of out yielded at loop position i
ViolationsOf(i) == { k \in 1..Len(out) : emitted_by[k] = i }

HasNonAsciiChar(text) == \E j \in 1..Len(text) : text[j] > 127

\* 1-based position of the lowest-index character above 127
FirstNonAscii(text) ==
    CHOOSE j \in 1..Len(text) :
        text[j] > 127 /\ \A m \in 1..(j - 1) : text[m] <= 127

\* r" r' u" u' b" b' in either case
StartsWithExemptPrefix(text) ==
    /\ Len(text) >= 2
    /\ text[1] \in {114, 82, 117, 85, 98, 66}
    /\ text[2] \in {34, 39}

\* the token is scanned: not ENCODING and not an exempt STRING
Scanned(t) ==
    /\ t.type # "ENCODING"
    /\ ~(t.type = "STRING" /\ StartsWithExemptPrefix(t.string))

Code1 == <<65, 83, 67, 48, 48, 49>>     \* "ASC001"

Code2 == <<65, 83, 67, 48, 48, 50>>     \* "ASC002"

Code3 == <<65, 83, 67, 48, 48, 51>>     \* "ASC003"

CodeOf(t) ==
    IF t.type = "COMMENT" THEN Code3
    ELSE IF t.type = "STRING" THEN Code2 ELSE Code1

\* ") found in <location-noun>"
TailOf(t) ==
    IF t.type = "COMMENT" THEN MsgTailComment
    ELSE IF t.type = "STRING" THEN MsgTailString ELSE MsgTailGeneral

IsUpperHexDigit(c) == c \in 48..57 \/ c \in 65..70

RECURSIVE HexValue(_)
HexValue(d) ==
    IF Len(d) = 0 THEN 0
    ELSE 16 * HexValue(SubSeq(d, 1, Len(d) - 1))
         + (IF d[Len(d)] <= 57 THEN d[Len(d)] - 48 ELSE d[Len(d)] - 55)

\* the characters between the first "(U+" of a message and the next ")"
HexField(msg) ==
    LET p == CHOOSE i \in 1..Len(msg) :
                 /\ i + 2 <= Len(msg)
                 /\ SubSeq(msg, i, i + 2) = <<40, 85, 43>>
                 /\ \A m \in 1..(i - 1) :
                        SubSeq(msg, m, m + 2) # <<40, 85, 43>>
        q == CHOOSE i \in (p + 3)..Len(msg) :
                 msg[i] = 41 /\ \A m \in (p + 3)..(i - 1) : msg[m] # 41
    IN  SubSeq(msg, p + 3, q - 1)

\* the character a violation yielded at loop position i is about
OffendingChar(i) == TokenAt(i).string[FirstNonAscii(TokenAt(i).string)]

(***************************************************************************)
(* C1: the message of every violation is exactly                           *)
(* "<CODE> Non-ASCII character '<char>' (U+<hex>) found in <noun>" with    *)
(* <CODE> the six-character code of the token's category, and nothing      *)
(* else.                                                                   *)
(***************************************************************************)
MessageExactlyAsSpecified ==
    \A k \in 1..Len(out) :
        LET t == TokenAt(emitted_by[k])
            c == OffendingChar(emitted_by[k])
        IN  out[k][3] = CodeOf(t) \o MsgLead \o <<c>> \o MsgMid
                            \o Format04X(c) \o TailOf(t)

(***************************************************************************)
(* C2: dispatch by token type.  A COMMENT token with a character above 127 *)
(* yields a violation naming ASC003 and neither ASC001 nor ASC002; a       *)
(* STRING token without exempt prefix yields one naming ASC002; a token of *)
(* any other type but ENCODING yields one naming ASC001; an ENCODING token *)
(* yields nothing.                                                         *)
(***************************************************************************)
DispatchByType ==
    \A i \in Processed :
        LET t == TokenAt(i)
            msgs == { out[k][3] : k \in ViolationsOf(i) }
            hit == HasNonAsciiChar(t.string)
        IN  /\ t.type = "ENCODING" => msgs = {}
            /\ (t.type = "COMMENT" /\ hit) =>
                   /\ msgs # {}
                   /\ \A m \in msgs : /\ Contains(m, Code3)
                                      /\ ~Contains(m, Code1)
                                      /\ ~Contains(m, Code2)
            /\ (t.type = "STRING" /\ hit
                    /\ ~StartsWithExemptPrefix(t.string)) =>
                   /\ msgs # {}
                   /\ \A m \in msgs : Contains(m, Code2)
            /\ (t.type \notin {"COMMENT", "STRING", "ENCODING"} /\ hit) =>
                   /\ msgs # {}
                   /\ \A m \in msgs : Contains(m, Code1)

DispatchWitness ==
    /\ pc = "done"
    /\ \E i \in Processed :
           /\ TokenAt(i).type = "ENCODING"
           /\ HasNonAsciiChar(TokenAt(i).string)
           /\ ViolationsOf(i) = {}

(***************************************************************************)
(* C3: a STRING token that starts with r" r' u" u' b" b' (in either case)  *)
(* yields no violation whatever follows; a COMMENT or general token with   *)
(* the same leading characters, and a STRING token with any other leading  *)
(* two characters, is scanned.                                             *)
(***************************************************************************)
PrefixExemption ==
    \A i \in Processed :
        LET t == TokenAt(i)
            hit == HasNonAsciiChar(t.string)
        IN  /\ (t.type = "STRING" /\ StartsWithExemptPrefix(t.string)) =>
                   ViolationsOf(i) = {}
            /\ (t.type \notin {"STRING", "ENCODING"} /\ hit
                    /\ StartsWithExemptPrefix(t.string)) =>
                   ViolationsOf(i) # {}
            /\ (t.type = "STRING" /\ hit
                    /\ ~StartsWithExemptPrefix(t.string)) =>
                   ViolationsOf(i) # {}

PrefixExemptionWitness ==
    /\ pc = "done"
    /\ \E i \in Processed :
           /\ TokenAt(i).type = "STRING"
           /\ StartsWithExemptPrefix(TokenAt(i).string)
           /\ TokenAt(i).string[1] = 82
           /\ HasNonAsciiChar(TokenAt(i).string)
           /\ ViolationsOf(i) = {}

(***************************************************************************)
(* C4: single-hit rule.  Every token contributes at most one violation; a  *)
(* scanned token contributes exactly one when its text has a character     *)
(* above 127, however many, and none otherwise; there are never more       *)
(* violations than tokens; and a run that is consumed terminates.          *)
(***************************************************************************)
SingleHitInv ==
    /\ Len(out) <= Len(file_tokens.items)
    /\ \A k \in 1..Len(out) : emitted_by[k] \in Processed
    /\ \A i \in Processed :
           LET t == TokenAt(i)
               n == Cardinality(ViolationsOf(i))
           IN  /\ n <= 1
               /\ (Scanned(t) /\ HasNonAsciiChar(t.string)) => n = 1
               /\ (Scanned(t) /\ ~HasNonAsciiChar(t.string)) => n = 0

RunTerminates == (pc = "running") ~> (pc # "running")

SingleHit == []SingleHitInv /\ RunTerminates

SingleHitWitness ==
    /\ pc = "done"
    /\ \E i \in Processed :
           /\ Cardinality({ j \in 1..Len(TokenAt(i).string) :
                              TokenAt(i).string[j] > 127 }) >= 2
           /\ Cardinality(ViolationsOf(i)) = 1

(***************************************************************************)
(* C5: for every violation, line is the token's start line and column is   *)
(* the token's start column plus the 0-based index of the lowest-index     *)
(* character above 127, also when the text contains newlines.              *)
(***************************************************************************)
LineAndColumn ==
    \A k \in 1..Len(out) :
        LET t == TokenAt(emitted_by[k])
        IN  /\ HasNonAsciiChar(t.string)
            /\ out[k][1] = t.start[1]
            /\ out[k][2] = t.start[2] + (FirstNonAscii(t.string) - 1)

LineAndColumnWitness ==
    \E k \in 1..Len(out) :
        LET t == TokenAt(emitted_by[k])
        IN  /\ \E j \in 1..(FirstNonAscii(t.string) - 1) : t.string[j] = 10
            /\ out[k][1] = t.start[1]
            /\ t.start[2] > 0
            /\ out[k][2] > t.start[2]

(***************************************************************************)
(* C6: order preservation.  The violations come in the order of their      *)
(* tokens, none twice, and each is about a character of the token it was   *)
(* yielded for.                                                            *)
(***************************************************************************)
About(v, t) ==
    LET j == v[2] - t.start[2] + 1
    IN  /\ v[1] = t.start[1]
        /\ j \in 1..Len(t.string)
        /\ t.string[j] > 127
        /\ Contains(v[3], <<39, t.string[j], 39>>)

OrderPreserved ==
    /\ \A k, l \in 1..Len(out) : k < l => emitted_by[k] < emitted_by[l]
    /\ \A k \in 1..Len(out) :
           /\ emitted_by[k] \in 1..Len(file_tokens.items)
           /\ About(out[k], TokenAt(emitted_by[k]))

OrderPreservedWitness ==
    /\ pc = "done"
    /\ Len(out) >= 2
    /\ out[1] # out[2]

(***************************************************************************)
(* C7: a checker constructed with an absent (None) or empty token sequence *)
(* yields no violation and never raises; the absent sequence is stored as  *)
(* the empty one.                                                          *)
(***************************************************************************)
AbsentIsEmpty ==
    (tokens_arg.is_none \/ tokens_arg.items = <<>>) =>
        /\ file_tokens = List(<<>>)
        /\ pc # "raised"
        /\ out = <<>>

AbsentIsEmptyWitness == tokens_arg.is_none /\ pc = "done" /\ runs >= 1

(***************************************************************************)
(* C8 as stated: a COMMENT token "# commént" starting at line 5, column 4  *)
(* yields a violation with line 5 and column 12 (the character at          *)
(* text-index 8).                                                          *)
(***************************************************************************)
CommentAt5_4 == Tok("COMMENT", <<35, 32, 99, 111, 109, 109, 233, 110, 116>>,
                    5, 4)

ColumnTwelve ==
    \A i \in Processed :
        TokenAt(i) = CommentAt5_4 =>
            /\ ViolationsOf(i) # {}
            /\ \A k \in ViolationsOf(i) : out[k][1] = 5 /\ out[k][2] = 12

(***************************************************************************)
(* C8 amended: in "# commént" the non-ASCII character is at text-index 6,  *)
(* so the COMMENT token starting at line 5, column 4 yields a violation    *)
(* with line 5 and column 10.                                              *)
(***************************************************************************)
ColumnAccuracy ==
    \A i \in Processed :
        TokenAt(i) = CommentAt5_4 =>
            /\ CommentAt5_4.string[6 + 1] = 233
            /\ \A j \in 1..6 : CommentAt5_4.string[j] <= 127
            /\ ViolationsOf(i) # {}
            /\ \A k \in ViolationsOf(i) : out[k][1] = 5 /\ out[k][2] = 10

ColumnAccuracyWitness ==
    \E i \in Processed : TokenAt(i) = CommentAt5_4 /\ ViolationsOf(i) # {}

(***************************************************************************)
(* C9 as stated: in every message the code point appears as "U+" followed  *)
(* by exactly four uppercase hexadecimal digits, for every character above *)
(* 127.                                                                    *)
(***************************************************************************)
ExactlyFourHexDigits ==
    \A k \in 1..Len(out) :
        LET d == HexField(out[k][3])
        IN  /\ Len(d) = 4
            /\ \A j \in 1..Len(d) : IsUpperHexDigit(d[j])
            /\ HexValue(d) = OffendingChar(emitted_by[k])

(***************************************************************************)
(* C9 amended: in every message the code point appears as "U+" followed by *)
(* its uppercase hexadecimal digits, zero-padded on the left to at least   *)
(* four: exactly four digits up to U+FFFF, and the five or six significant *)
(* digits above.                                                           *)
(***************************************************************************)
AtLeastFourHexDigits ==
    \A k \in 1..Len(out) :
        LET d == HexField(out[k][3])
            c == OffendingChar(emitted_by[k])
        IN  /\ \A j \in 1..Len(d) : IsUpperHexDigit(d[j])
            /\ HexValue(d) = c
            /\ c <= 65535 => Len(d) = 4
            /\ c > 65535 => (Len(d) \in {5, 6} /\ d[1] # 48)

AtLeastFourHexDigitsWitness ==
    \E k \in 1..Len(out) :
        /\ OffendingChar(emitted_by[k]) > 65535
        /\ Len(HexField(out[k][3])) = 5

(***************************************************************************)
(* C10: run() keeps no state and has no side effect.  The stored tokens    *)
(* and filename never change; every run, after a complete or an abandoned  *)
(* one, yields the violations of the first complete run; and the violation *)
(* of a token is the one a checker holding that token alone yields.        *)
(***************************************************************************)
IsPrefix(s, t) == Len(s) <= Len(t) /\ SubSeq(t, 1, Len(s)) = s

\* what a run over the single token t yields
Alone(t) ==
    IF t.type = "COMMENT" THEN check_comment(t)
    ELSE IF t.type = "STRING" THEN check_string_token(t)
    ELSE check_general_token(t)

StatelessInv ==
    /\ ~first_run.is_none =>
           /\ IsPrefix(out, first_run.items)
           /\ pc = "done" => out = first_run.items
    /\ \A k \in 1..Len(out) : <<out[k]>> = Alone(TokenAt(emitted_by[k]))

Stateless ==
    /\ []StatelessInv
    /\ [][file_tokens' = file_tokens /\ filename' = filename]_vars

StatelessWitness ==
    /\ runs = MaxRuns
    /\ pc = "done"
    /\ ~first_run.is_none
    /\ Len(out) >= 2

=============================================================================
